---- MODULE Spec2Model ----
(***************************************************************************)
(* The mouse-binding registry of xgbutil (mousebind part of XUtil): the    *)
(* maps xu.mousebinds and xu.mousegrabs, guarded by the reader/writer lock *)
(* xu.mousebindsLck, and the goroutines that call into them.               *)
(*                                                                         *)
(* Every goroutine is a small program counter machine.  A step of the      *)
(* model is one statement (or one lock operation) of the Go code, so the   *)
(* states inside a critical section exist in the model and the lock is     *)
(* what hides them from the other goroutines.                              *)
(***************************************************************************)
EXTENDS Integers, Sequences, FiniteSets, TLC

\* ------------------------------------------------------------------ bounds
\* Number of top-level calls the goroutines issue in one behaviour of Spec.
MaxOps == 3
\* Number of goroutines that attach concurrently in SpecDisjoint.
MaxAttachers == 3
\* Most operations the event loop makes on the drag state.
MaxDragOps == 4
\* Most icons in the slice passed to FindBestIcon.
MaxIcons == 3

\* The goroutines of Spec: two callers of the registry, each free to issue
\* any call at any time (an event loop and a worker, in the words of the
\* package).
Threads == {1, 2}
Attachers == 1..MaxAttachers

\* ------------------------------------------------------------- input sets
\* MouseBindKey: the tuple (event type, window id, modifier, button).
\* Go compares structs field by field, as TLA+ compares records.
MouseBindKey(evtype, win, mods, button) ==
    [Evtype |-> evtype, Win |-> win, Mod |-> mods, Button |-> button]

\* The keys the callers use.  evtype is xevent.ButtonPress (4) or
\* xevent.ButtonRelease (5), win an xproto.Window, mods a uint16 modifier
\* mask, button an xproto.Button.  The second key shares event type and
\* window with the first and differs in modifiers and button, the third
\* differs from the first in the event type only, the fourth in the window
\* only.
Keys == {MouseBindKey(4, 1, 0, 1), MouseBindKey(4, 1, 8, 3),
         MouseBindKey(5, 1, 0, 1), MouseBindKey(4, 2, 0, 1)}
EvTypes == {k.Evtype : k \in Keys}
Wins == {k.Win : k \in Keys}

\* The MouseBindCallback values handed to the registry.  The registry never
\* looks inside them; what Run does is up to the caller.  Three behaviours
\* are modelled, each re-entering the registry from inside Run:
\*   cbRead   calls MouseBindGrabs on the key of the event,
\*   cbAttach calls AttachMouseBindCallback(key of the event, cbRead),
\*   cbDetach calls DetachMouseBindWindow(evtype, win of the event).
Callbacks == {"cbRead", "cbAttach", "cbDetach"}
\* The callbacks the goroutines of Spec attach themselves; cbRead comes into
\* a chain through cbAttach.
CallerCallbacks == {"cbAttach", "cbDetach"}
NoFun == "none"

\* ------------------------------------------------------------------ state
VARIABLES
    mousebinds,   \* xu.mousebinds : map[MouseBindKey][]MouseBindCallback
    mousegrabs,   \* xu.mousegrabs : map[MouseBindKey]int
    mousebindsLck,\* xu.mousebindsLck : [w: holder of the write lock or 0,
                  \*                     r: set of holders of the read lock]
    pc,           \* per goroutine: the statement it is about to execute
    arg,          \* per goroutine: the arguments of the call in progress
    res,          \* per goroutine: the value a top-level call is returning
    run,          \* per goroutine: the frame of RunMouseBindCallbacks
    ops,          \* number of top-level calls issued so far
    attached,     \* history: per key, the callbacks of the Attach calls that
                  \* returned since the key was last detached, in call order
    drag,         \* [mouseDrag, mouseDragStep, mouseDragEnd]: the fields
                  \* xu.mouseDrag, xu.mouseDragStep and xu.mouseDragEnd
    gesture,      \* the event loop that drives the drag: the value the last
                  \* getter returned, and history of the calls it made
    find,         \* [width, height, icons]: the arguments of FindBestIcon
    best          \* <<b>> when FindBestIcon has returned, b the index in
                  \* icons of the icon returned, 0 for nil; <<>> before

bindVars == <<mousebinds, mousegrabs, mousebindsLck, pc, arg, res, run, ops,
              attached>>
dragVars == <<drag, gesture>>
iconVars == <<find, best>>
vars == <<mousebinds, mousegrabs, mousebindsLck, pc, arg, res, run, ops,
          attached, drag, gesture, find, best>>

NoArg == [evtype |-> 0, win |-> 0, mods |-> 0, button |-> 0, fun |-> NoFun]
NoRes == [op |-> "none", cbs |-> <<>>, n |-> 0, b |-> FALSE, keys |-> <<>>]
\* st: "none" (no call of RunMouseBindCallbacks in progress), "snap" (it is
\* inside its call of MouseBindCallbacks) or "loop" (it ranges over cbs);
\* cbs: the slice MouseBindCallbacks returned; i: callbacks invoked so far.
\* History fields: ran, the callbacks whose Run was called, in order;
\* chain, the chain xu.mousebinds held for the key when cbs was copied;
\* snap, the value of attached for the key at that moment.
NoRun == [st |-> "none", key |-> MouseBindKey(0, 0, 0, 0), cbs |-> <<>>,
          i |-> 0, ran |-> <<>>, chain |-> <<>>, snap |-> <<>>]

ArgKey(t) == MouseBindKey(arg[t].evtype, arg[t].win, arg[t].mods, arg[t].button)

\* The functions a caller passes as MouseDragFun values; NoFun is nil.
DragFuns == {"dragA", "dragB"}
\* xu.mouseDrag, xu.mouseDragStep, xu.mouseDragEnd of a new XUtil
NoDrag == [mouseDrag |-> FALSE, mouseDragStep |-> NoFun, mouseDragEnd |-> NoFun]
\* op: the last operation of the event loop, n: how many it made;
\* retb, retf: the value the last getter returned.
\* History fields: lastSet, the argument of the last call of MouseDragSet
\* (<<>> when there was none); stepSet, endSet, the arguments of the last
\* calls of MouseDragStepSet and MouseDragEndSet; begin, how the last begin
\* function answered; idle, that no drag was in progress when it was asked;
\* forced, that MouseDragSet(true) was called since, outside a begin;
\* step, end, the functions of that gesture; invoked, the functions called
\* since that begin, in order.
NoGesture == [op |-> "none", n |-> 0, retb |-> FALSE, retf |-> NoFun,
              lastSet |-> <<>>, stepSet |-> NoFun, endSet |-> NoFun,
              begin |-> "none", idle |-> TRUE, forced |-> FALSE,
              step |-> NoFun, end |-> NoFun, invoked |-> <<>>]
NoFind == [width |-> <<0, 0>>, height |-> <<0, 0>>, icons |-> <<>>]

\* --------------------------------------------------------- sync.RWMutex
LockFree(l) == l.w = 0 /\ l.r = {}
RLockFree(l) == l.w = 0
\* Mutant: the write lock is not taken.
LockNotTaken(l, t) == l
Lock(l, t) == [l EXCEPT !.w = t]
Unlock(l, t) == [l EXCEPT !.w = 0]
RLock(l, t) == [l EXCEPT !.r = @ \cup {t}]
\* Mutant: the read lock is never given back.
RUnlockMissing(l, t) == l
RUnlock(l, t) == [l EXCEPT !.r = @ \ {t}]

\* ------------------------------------------------------ Go map helpers
\* m[key] of a map[MouseBindKey][]MouseBindCallback: nil slice if absent.
BindsAt(m, key) == IF key \in DOMAIN m THEN m[key] ELSE <<>>
\* m[key] of a map[MouseBindKey]int: 0 if absent.
GrabsAt(m, key) == IF key \in DOMAIN m THEN m[key] ELSE 0
\* Mutant: keys are compared without their event type.
MapSetAnyEvtype(m, key, v) ==
    [k \in DOMAIN m \cup {key} |->
        IF k.Win = key.Win /\ k.Mod = key.Mod /\ k.Button = key.Button
          THEN v ELSE m[k]]
\* m[key] = v
MapSet(m, key, v) == [k \in DOMAIN m \cup {key} |-> IF k = key THEN v ELSE m[k]]
\* delete(m, key) for every key of ks
MapDelete(m, ks) == [k \in DOMAIN m \ ks |-> m[k]]

\* Where a call returns to: the loop of RunMouseBindCallbacks when it was
\* made by a callback, the caller otherwise.
Nested(t) == run[t].st = "loop"
Return(t) == IF Nested(t) THEN "run_loop" ELSE "ret"
\* The arguments of a call live until it has returned to its caller; those
\* of a call made by a callback end with the callback.
ReturnArg(t) == IF Nested(t) THEN NoArg ELSE arg[t]

Init ==
    /\ mousebinds = <<>>
    /\ mousegrabs = <<>>
    /\ mousebindsLck = [w |-> 0, r |-> {}]
    /\ pc = [t \in Threads |-> "idle"]
    /\ arg = [t \in Threads |-> NoArg]
    /\ res = [t \in Threads |-> NoRes]
    /\ run = [t \in Threads |-> NoRun]
    /\ ops = 0
    /\ attached = [k \in Keys |-> <<>>]
    /\ drag = NoDrag
    /\ gesture = NoGesture
    /\ find = NoFind
    /\ best = <<>>

\* ------------------------------------------------ the callers (inputs)
CanCall(t) == pc[t] = "idle" /\ ops < MaxOps

Enter(t, label, a) ==
    /\ pc' = [pc EXCEPT ![t] = label]
    /\ arg' = [arg EXCEPT ![t] = a]
    /\ ops' = ops + 1
    /\ UNCHANGED <<mousebinds, mousegrabs, mousebindsLck, res, attached>>
    /\ UNCHANGED <<dragVars, iconVars>>

KeyArg(k, f) == [evtype |-> k.Evtype, win |-> k.Win, mods |-> k.Mod,
                 button |-> k.Button, fun |-> f]
WinArg(e, w) == [evtype |-> e, win |-> w, mods |-> 0, button |-> 0, fun |-> NoFun]

CallAttach(t) ==
    /\ CanCall(t)
    /\ \E k \in Keys, f \in CallerCallbacks : Enter(t, "att_lock", KeyArg(k, f))
    /\ UNCHANGED run

CallDetach(t) ==
    /\ CanCall(t)
    /\ \E e \in EvTypes, w \in Wins : Enter(t, "det_lock", WinArg(e, w))
    /\ UNCHANGED run

CallKeys(t) ==
    /\ CanCall(t)
    /\ Enter(t, "keys_rlock", NoArg)
    /\ UNCHANGED run

CallCallbacks(t) ==
    /\ CanCall(t)
    /\ \E k \in Keys : Enter(t, "cbs_rlock", KeyArg(k, NoFun))
    /\ UNCHANGED run

CallConnected(t) ==
    /\ CanCall(t)
    /\ \E e \in EvTypes, w \in Wins : Enter(t, "con_rlock", WinArg(e, w))
    /\ UNCHANGED run

CallGrabs(t) ==
    /\ CanCall(t)
    /\ \E k \in Keys : Enter(t, "grb_rlock", KeyArg(k, NoFun))
    /\ UNCHANGED run

\* RunMouseBindCallbacks builds the key and calls MouseBindCallbacks(key).
CallRun(t) ==
    /\ CanCall(t)
    /\ \E k \in Keys :
         /\ Enter(t, "cbs_rlock", KeyArg(k, NoFun))
         /\ run' = [run EXCEPT ![t] = [NoRun EXCEPT !.st = "snap", !.key = k]]

\* The caller takes the returned value.
ReturnToCaller(t) ==
    /\ pc[t] = "ret"
    /\ pc' = [pc EXCEPT ![t] = "idle"]
    /\ res' = [res EXCEPT ![t] = NoRes]
    /\ arg' = [arg EXCEPT ![t] = NoArg]
    /\ UNCHANGED <<mousebinds, mousegrabs, mousebindsLck, run, ops, attached>>
    /\ UNCHANGED <<dragVars, iconVars>>

\* ------------------------------------------- AttachMouseBindCallback
AttachLock(t) ==
    /\ pc[t] = "att_lock"
    /\ LockFree(mousebindsLck)
    /\ mousebindsLck' = Lock(mousebindsLck, t)
    /\ pc' = [pc EXCEPT ![t] = "att_alloc"]
    /\ UNCHANGED <<mousebinds, mousegrabs, arg, res, run, ops, attached>>
    /\ UNCHANGED <<dragVars, iconVars>>

\* Mutant: the chain is allocated without the test for an existing one.
AttachAllocateAlways(m, key) == MapSet(m, key, <<>>)

\* if _, ok := xu.mousebinds[key]; !ok { xu.mousebinds[key] = make(..., 0) }
AttachAllocate(m, key) == IF key \in DOMAIN m THEN m ELSE MapSet(m, key, <<>>)

AttachAlloc(t) ==
    /\ pc[t] = "att_alloc"
    /\ mousebinds' = AttachAllocate(mousebinds, ArgKey(t))
    /\ pc' = [pc EXCEPT ![t] = "att_append"]
    /\ UNCHANGED <<mousegrabs, mousebindsLck, arg, res, run, ops, attached>>
    /\ UNCHANGED <<dragVars, iconVars>>

\* Mutant: the new callback is put in front of the chain.
AttachPrepended(m, key, fun) == MapSet(m, key, <<fun>> \o BindsAt(m, key))

\* Mutant: the result of append is dropped.
AttachAppendDropped(m, key, fun) == m

\* xu.mousebinds[key] = append(xu.mousebinds[key], fun)
AttachAppended(m, key, fun) == MapSet(m, key, Append(BindsAt(m, key), fun))

AttachAppend(t) ==
    /\ pc[t] = "att_append"
    /\ mousebinds' = AttachAppended(mousebinds, ArgKey(t), arg[t].fun)
    /\ pc' = [pc EXCEPT ![t] = "att_inc"]
    /\ UNCHANGED <<mousegrabs, mousebindsLck, arg, res, run, ops, attached>>
    /\ UNCHANGED <<dragVars, iconVars>>

\* Mutant: the count is set instead of incremented.
AttachCountedSet(g, key) == MapSet(g, key, 1)

\* xu.mousegrabs[key] += 1
AttachCounted(g, key) == MapSet(g, key, GrabsAt(g, key) + 1)

AttachInc(t) ==
    /\ pc[t] = "att_inc"
    /\ mousegrabs' = AttachCounted(mousegrabs, ArgKey(t))
    /\ pc' = [pc EXCEPT ![t] = "att_unlock"]
    /\ UNCHANGED <<mousebinds, mousebindsLck, arg, res, run, ops, attached>>
    /\ UNCHANGED <<dragVars, iconVars>>

\* defer xu.mousebindsLck.Unlock(), and the return
AttachUnlock(t) ==
    /\ pc[t] = "att_unlock"
    /\ mousebindsLck' = Unlock(mousebindsLck, t)
    /\ attached' = [attached EXCEPT ![ArgKey(t)] = Append(@, arg[t].fun)]
    /\ pc' = [pc EXCEPT ![t] = Return(t)]
    /\ arg' = [arg EXCEPT ![t] = ReturnArg(t)]
    /\ UNCHANGED <<mousebinds, mousegrabs, res, run, ops>>
    /\ UNCHANGED <<dragVars, iconVars>>

\* ------------------------------------------------------ MouseBindKeys
KeysRLock(t) ==
    /\ pc[t] = "keys_rlock"
    /\ RLockFree(mousebindsLck)
    /\ mousebindsLck' = RLock(mousebindsLck, t)
    /\ pc' = [pc EXCEPT ![t] = "keys_copy"]
    /\ UNCHANGED <<mousebinds, mousegrabs, arg, res, run, ops, attached>>
    /\ UNCHANGED <<dragVars, iconVars>>

\* Mutant: the range is over the keys of xu.mousegrabs.
MouseBindKeysOfGrabs(m) ==
    {s \in [1..Cardinality(DOMAIN mousegrabs) -> DOMAIN mousegrabs] :
        \A i, j \in DOMAIN s : i # j => s[i] # s[j]}

\* The slices a range over the keys of m can fill: every key once, in an
\* order Go leaves unspecified.
MouseBindKeys(m) ==
    {s \in [1..Cardinality(DOMAIN m) -> DOMAIN m] :
        \A i, j \in DOMAIN s : i # j => s[i] # s[j]}

KeysCopy(t) ==
    /\ pc[t] = "keys_copy"
    /\ \E keys \in MouseBindKeys(mousebinds) :
         res' = [res EXCEPT ![t] = [NoRes EXCEPT !.op = "keys", !.keys = keys]]
    /\ mousebindsLck' = RUnlock(mousebindsLck, t)
    /\ pc' = [pc EXCEPT ![t] = "ret"]
    /\ arg' = [arg EXCEPT ![t] = ReturnArg(t)]
    /\ UNCHANGED <<mousebinds, mousegrabs, run, ops, attached>>
    /\ UNCHANGED <<dragVars, iconVars>>

\* ------------------------------------------------- MouseBindCallbacks
CallbacksRLock(t) ==
    /\ pc[t] = "cbs_rlock"
    /\ RLockFree(mousebindsLck)
    /\ mousebindsLck' = RLock(mousebindsLck, t)
    /\ pc' = [pc EXCEPT ![t] = "cbs_copy"]
    /\ UNCHANGED <<mousebinds, mousegrabs, arg, res, run, ops, attached>>
    /\ UNCHANGED <<dragVars, iconVars>>

\* cbs := make(..., len(xu.mousebinds[key])); for i, cb := range ... { cbs[i] = cb }
MouseBindCallbacks(m, key) ==
    [i \in 1..Len(BindsAt(m, key)) |-> BindsAt(m, key)[i]]

\* Mutant: the lookup creates an entry for a key it does not find.
CallbacksReadInserts(m, key) == IF key \in DOMAIN m THEN m ELSE MapSet(m, key, <<>>)

\* Reading xu.mousebinds[key] leaves the map as it is.
CallbacksRead(m, key) == m

\* The copy, the deferred RUnlock and the return: to the loop of
\* RunMouseBindCallbacks when that made the call, to the caller otherwise.
CallbacksCopy(t) ==
    /\ pc[t] = "cbs_copy"
    /\ mousebinds' = CallbacksRead(mousebinds, ArgKey(t))
    /\ mousebindsLck' = RUnlock(mousebindsLck, t)
    /\ IF run[t].st = "snap"
         THEN /\ arg' = [arg EXCEPT ![t] = NoArg]
              /\ run' = [run EXCEPT ![t].st = "loop",
                                    ![t].cbs = MouseBindCallbacks(mousebinds, ArgKey(t)),
                                    ![t].chain = BindsAt(mousebinds, ArgKey(t)),
                                    ![t].snap = attached[ArgKey(t)]]
              /\ pc' = [pc EXCEPT ![t] = "run_loop"]
              /\ UNCHANGED res
         ELSE /\ res' = [res EXCEPT ![t] = [NoRes EXCEPT !.op = "cbs",
                            !.cbs = MouseBindCallbacks(mousebinds, ArgKey(t))]]
              /\ pc' = [pc EXCEPT ![t] = "ret"]
              /\ UNCHANGED <<arg, run>>
    /\ UNCHANGED <<mousegrabs, ops, attached>>
    /\ UNCHANGED <<dragVars, iconVars>>

\* ---------------------------------------------- RunMouseBindCallbacks
\* Mutant: the loop ranges over the registered chain, not over the copy.
RunChainLive(t) == BindsAt(mousebinds, run[t].key)

\* The slice the for loop ranges over: the one MouseBindCallbacks returned.
RunChain(t) == run[t].cbs

\* What Run of callback cb does with the event of key k: the label it
\* enters the registry at and the arguments it passes.
\* Run of cbHang never returns: at "hang" the goroutine has no next step.
RunLabel(cb) ==
    CASE cb = "cbRead" -> "grb_rlock"
      [] cb = "cbAttach" -> "att_lock"
      [] cb = "cbDetach" -> "det_lock"
      [] cb = "cbHang" -> "hang"
RunArg(cb, k) ==
    CASE cb = "cbRead" -> KeyArg(k, NoFun)
      [] cb = "cbAttach" -> KeyArg(k, "cbRead")
      [] cb = "cbDetach" -> WinArg(k.Evtype, k.Win)
      [] cb = "cbHang" -> NoArg

\* for _, cb := range cbs { cb.Run(xu, event) }: the next callback is called
RunInvoke(t) ==
    /\ pc[t] = "run_loop"
    /\ run[t].i < Len(RunChain(t))
    /\ LET cb == RunChain(t)[run[t].i + 1] IN
         /\ run' = [run EXCEPT ![t].i = @ + 1, ![t].ran = Append(@, cb)]
         /\ pc' = [pc EXCEPT ![t] = RunLabel(cb)]
         /\ arg' = [arg EXCEPT ![t] = RunArg(cb, run[t].key)]
    /\ UNCHANGED <<mousebinds, mousegrabs, mousebindsLck, res, ops, attached>>
    /\ UNCHANGED <<dragVars, iconVars>>

\* the range is exhausted
RunExit(t) ==
    /\ pc[t] = "run_loop"
    /\ run[t].i >= Len(RunChain(t))
    /\ pc' = [pc EXCEPT ![t] = "run_ret"]
    /\ run' = [run EXCEPT ![t].st = "done"]
    /\ UNCHANGED <<mousebinds, mousegrabs, mousebindsLck, arg, res, ops,
                   attached>>
    /\ UNCHANGED <<dragVars, iconVars>>

RunReturn(t) ==
    /\ pc[t] = "run_ret"
    /\ pc' = [pc EXCEPT ![t] = "idle"]
    /\ run' = [run EXCEPT ![t] = NoRun]
    /\ UNCHANGED <<mousebinds, mousegrabs, mousebindsLck, arg, res, ops,
                   attached>>
    /\ UNCHANGED <<dragVars, iconVars>>

\* ------------------------------------------------- ConnectedMouseBind
ConnectedRLock(t) ==
    /\ pc[t] = "con_rlock"
    /\ RLockFree(mousebindsLck)
    /\ mousebindsLck' = RLock(mousebindsLck, t)
    /\ pc' = [pc EXCEPT ![t] = "con_scan"]
    /\ UNCHANGED <<mousebinds, mousegrabs, arg, res, run, ops, attached>>
    /\ UNCHANGED <<dragVars, iconVars>>

\* Mutant: the event type is left out of the comparison.
ConnectedMouseBindWin(m, evtype, win) == \E key \in DOMAIN m : key.Win = win

\* for key, _ := range xu.mousebinds { if key.Evtype == evtype &&
\* key.Win == win { return true } }; return false
ConnectedMouseBind(m, evtype, win) ==
    \E key \in DOMAIN m : key.Evtype = evtype /\ key.Win = win

ConnectedScan(t) ==
    /\ pc[t] = "con_scan"
    /\ res' = [res EXCEPT ![t] = [NoRes EXCEPT !.op = "con",
                  !.b = ConnectedMouseBind(mousebinds, arg[t].evtype, arg[t].win)]]
    /\ mousebindsLck' = RUnlock(mousebindsLck, t)
    /\ pc' = [pc EXCEPT ![t] = "ret"]
    /\ arg' = [arg EXCEPT ![t] = ReturnArg(t)]
    /\ UNCHANGED <<mousebinds, mousegrabs, run, ops, attached>>
    /\ UNCHANGED <<dragVars, iconVars>>

\* ---------------------------------------------- DetachMouseBindWindow
DetachLock(t) ==
    /\ pc[t] = "det_lock"
    /\ LockFree(mousebindsLck)
    /\ mousebindsLck' = Lock(mousebindsLck, t)
    /\ pc' = [pc EXCEPT ![t] = "det_loop"]
    /\ UNCHANGED <<mousebinds, mousegrabs, arg, res, run, ops, attached>>
    /\ UNCHANGED <<dragVars, iconVars>>

\* Mutant: the event type is left out of the comparison.
DetachMatchWin(m, evtype, win) == {key \in DOMAIN m : key.Win = win}

\* The keys the loop's condition selects.
DetachMatch(m, evtype, win) ==
    {key \in DOMAIN m : key.Evtype = evtype /\ key.Win = win}

\* Mutant: the loop ranges over xu.mousegrabs and takes one grab off each
\* count of the window.
DetachGrabsByOne(g, m, evtype, win) ==
    [key \in DOMAIN g |->
        IF key.Evtype = evtype /\ key.Win = win THEN g[key] - 1 ELSE g[key]]

\* Mutant: the entry is deleted before its length is taken off the count.
DetachGrabsAfterDelete(g, m, evtype, win) ==
    [key \in DOMAIN g \cup DetachMatch(m, evtype, win) |-> GrabsAt(g, key)]

\* xu.mousegrabs[key] -= len(xu.mousebinds[key]), for every selected key
DetachGrabs(g, m, evtype, win) ==
    [key \in DOMAIN g \cup DetachMatch(m, evtype, win) |->
        IF key \in DetachMatch(m, evtype, win)
          THEN GrabsAt(g, key) - Len(m[key])
          ELSE g[key]]

\* Mutant: the chains of the selected keys are emptied, the keys stay.
DetachBindsEmptied(m, evtype, win) ==
    [key \in DOMAIN m |->
        IF key \in DetachMatch(m, evtype, win) THEN <<>> ELSE m[key]]

\* delete(xu.mousebinds, key), for every selected key
DetachBinds(m, evtype, win) == MapDelete(m, DetachMatch(m, evtype, win))

\* The whole range loop.  Deleting the entry just produced is safe in a Go
\* range, and the two statements of an iteration touch that entry only, so
\* the order of the iterations does not show in the result.
DetachLoop(t) ==
    /\ pc[t] = "det_loop"
    /\ mousegrabs' = DetachGrabs(mousegrabs, mousebinds, arg[t].evtype, arg[t].win)
    /\ mousebinds' = DetachBinds(mousebinds, arg[t].evtype, arg[t].win)
    /\ pc' = [pc EXCEPT ![t] = "det_unlock"]
    /\ UNCHANGED <<mousebindsLck, arg, res, run, ops, attached>>
    /\ UNCHANGED <<dragVars, iconVars>>

DetachUnlock(t) ==
    /\ pc[t] = "det_unlock"
    /\ mousebindsLck' = Unlock(mousebindsLck, t)
    /\ attached' = [k \in Keys |->
                      IF k.Evtype = arg[t].evtype /\ k.Win = arg[t].win
                        THEN <<>> ELSE attached[k]]
    /\ pc' = [pc EXCEPT ![t] = Return(t)]
    /\ arg' = [arg EXCEPT ![t] = ReturnArg(t)]
    /\ UNCHANGED <<mousebinds, mousegrabs, res, run, ops>>
    /\ UNCHANGED <<dragVars, iconVars>>

\* ----------------------------------------------------- MouseBindGrabs
GrabsRLock(t) ==
    /\ pc[t] = "grb_rlock"
    /\ RLockFree(mousebindsLck)
    /\ mousebindsLck' = RLock(mousebindsLck, t)
    /\ pc' = [pc EXCEPT ![t] = "grb_read"]
    /\ UNCHANGED <<mousebinds, mousegrabs, arg, res, run, ops, attached>>
    /\ UNCHANGED <<dragVars, iconVars>>

\* return xu.mousegrabs[key] // returns 0 if key does not exist
MouseBindGrabs(g, key) == GrabsAt(g, key)

\* Reading xu.mousegrabs[key] leaves the map as it is.
GrabsRead(g, key) == g

\* A callback that calls MouseBindGrabs drops the value.
GrabsReturn(t) ==
    /\ pc[t] = "grb_read"
    /\ mousegrabs' = GrabsRead(mousegrabs, ArgKey(t))
    /\ res' = IF Nested(t) THEN res
              ELSE [res EXCEPT ![t] = [NoRes EXCEPT !.op = "grb",
                       !.n = MouseBindGrabs(mousegrabs, ArgKey(t))]]
    /\ mousebindsLck' = RUnlock(mousebindsLck, t)
    /\ pc' = [pc EXCEPT ![t] = Return(t)]
    /\ arg' = [arg EXCEPT ![t] = ReturnArg(t)]
    /\ UNCHANGED <<mousebinds, run, ops, attached>>
    /\ UNCHANGED <<dragVars, iconVars>>

\* ------------------------------------------------------ specification
Next ==
    \E t \in Threads :
        \/ CallAttach(t)
        \/ CallDetach(t)
        \/ CallKeys(t)
        \/ CallCallbacks(t)
        \/ CallConnected(t)
        \/ CallGrabs(t)
        \/ CallRun(t)
        \/ ReturnToCaller(t)
        \/ AttachLock(t)
        \/ AttachAlloc(t)
        \/ AttachAppend(t)
        \/ AttachInc(t)
        \/ AttachUnlock(t)
        \/ KeysRLock(t)
        \/ KeysCopy(t)
        \/ CallbacksRLock(t)
        \/ CallbacksCopy(t)
        \/ RunInvoke(t)
        \/ RunExit(t)
        \/ RunReturn(t)
        \/ ConnectedRLock(t)
        \/ ConnectedScan(t)
        \/ DetachLock(t)
        \/ DetachLoop(t)
        \/ DetachUnlock(t)
        \/ GrabsRLock(t)
        \/ GrabsReturn(t)

Spec == Init /\ [][Next]_vars

\* Concurrent attaches on distinct keys: every goroutine of Attachers has
\* called AttachMouseBindCallback once, each with a key of its own, on a
\* registry that holds nothing or one earlier attach under another key.
InitDisjoint ==
    /\ \E a \in [Attachers -> Keys \X Callbacks] :
         /\ \A t, u \in Attachers : t # u => a[t][1] # a[u][1]
         /\ arg = [t \in Attachers |-> KeyArg(a[t][1], a[t][2])]
         /\ \E held \in SUBSET (Keys \ {a[t][1] : t \in Attachers}), f \in Callbacks :
              /\ Cardinality(held) <= 1
              /\ mousebinds = [k \in held |-> <<f>>]
              /\ mousegrabs = [k \in held |-> 1]
              /\ attached = [k \in Keys |-> IF k \in held THEN <<f>> ELSE <<>>]
    /\ mousebindsLck = [w |-> 0, r |-> {}]
    /\ pc = [t \in Attachers |-> "att_lock"]
    /\ res = [t \in Attachers |-> NoRes]
    /\ run = [t \in Attachers |-> NoRun]
    /\ ops = 0
    /\ drag = NoDrag
    /\ gesture = NoGesture
    /\ find = NoFind
    /\ best = <<>>

NextDisjoint ==
    \E t \in Attachers :
        \/ AttachLock(t)
        \/ AttachAlloc(t)
        \/ AttachAppend(t)
        \/ AttachInc(t)
        \/ AttachUnlock(t)

SpecDisjoint == InitDisjoint /\ [][NextDisjoint]_vars

\* Concurrent attaches on one shared key: every goroutine of Attachers has
\* called AttachMouseBindCallback once, all with the same key, on an empty
\* registry, while the goroutine of Readers has called MouseBindCallbacks
\* with that key.
Readers == {MaxAttachers + 1}

InitShared ==
    /\ \E k \in Keys, f \in [Attachers -> Callbacks] :
         arg = [t \in Attachers \cup Readers |->
                   IF t \in Attachers THEN KeyArg(k, f[t]) ELSE KeyArg(k, NoFun)]
    /\ mousebinds = <<>>
    /\ mousegrabs = <<>>
    /\ attached = [k \in Keys |-> <<>>]
    /\ mousebindsLck = [w |-> 0, r |-> {}]
    /\ pc = [t \in Attachers \cup Readers |->
                IF t \in Attachers THEN "att_lock" ELSE "cbs_rlock"]
    /\ res = [t \in Attachers \cup Readers |-> NoRes]
    /\ run = [t \in Attachers \cup Readers |-> NoRun]
    /\ ops = 0
    /\ drag = NoDrag
    /\ gesture = NoGesture
    /\ find = NoFind
    /\ best = <<>>

NextShared ==
    \/ \E t \in Attachers :
          \/ AttachLock(t)
          \/ AttachAlloc(t)
          \/ AttachAppend(t)
          \/ AttachInc(t)
          \/ AttachUnlock(t)
    \/ \E t \in Readers :
          \/ CallbacksRLock(t)
          \/ CallbacksCopy(t)

SpecShared == InitShared /\ [][NextShared]_vars

\* --------------------------------------------------- the drag state
\* func (xu *XUtil) MouseDrag() bool { return xu.mouseDrag }
MouseDrag(xu) == xu.mouseDrag

\* Mutant: a drag in progress cannot be switched off.
MouseDragSetSticky(xu, dragging) == [xu EXCEPT !.mouseDrag = @ \/ dragging]

\* Mutant: switching the drag off forgets the step and end functions.
MouseDragSetClears(xu, dragging) ==
    IF dragging THEN [xu EXCEPT !.mouseDrag = TRUE] ELSE NoDrag

\* func (xu *XUtil) MouseDragSet(dragging bool) { xu.mouseDrag = dragging }
MouseDragSet(xu, dragging) == [xu EXCEPT !.mouseDrag = dragging]

\* func (xu *XUtil) MouseDragStep() MouseDragFun { return xu.mouseDragStep }
MouseDragStep(xu) == xu.mouseDragStep

\* Mutant: the step function is not stored.
MouseDragStepSetDropped(xu, f) == xu

\* func (xu *XUtil) MouseDragStepSet(f MouseDragFun) { xu.mouseDragStep = f }
MouseDragStepSet(xu, f) == [xu EXCEPT !.mouseDragStep = f]

\* func (xu *XUtil) MouseDragEnd() MouseDragFun { return xu.mouseDragEnd }
MouseDragEnd(xu) == xu.mouseDragEnd

\* func (xu *XUtil) MouseDragEndSet(f MouseDragFun) { xu.mouseDragEnd = f }
MouseDragEndSet(xu, f) == [xu EXCEPT !.mouseDragEnd = f]

\* The event loop is one goroutine; it makes one call at a time.
CanDrag == gesture.n < MaxDragOps

CallMouseDrag ==
    /\ CanDrag
    /\ gesture' = [gesture EXCEPT !.op = "MouseDrag", !.n = @ + 1,
                                  !.retb = MouseDrag(drag)]
    /\ UNCHANGED <<drag, bindVars, iconVars>>

CallMouseDragSet ==
    /\ CanDrag
    /\ \E dragging \in BOOLEAN :
         /\ drag' = MouseDragSet(drag, dragging)
         /\ gesture' = [gesture EXCEPT !.op = "MouseDragSet", !.n = @ + 1,
                                       !.lastSet = <<dragging>>,
                                       !.forced = @ \/ dragging]
    /\ UNCHANGED <<bindVars, iconVars>>

CallMouseDragStep ==
    /\ CanDrag
    /\ gesture' = [gesture EXCEPT !.op = "MouseDragStep", !.n = @ + 1,
                                  !.retf = MouseDragStep(drag)]
    /\ UNCHANGED <<drag, bindVars, iconVars>>

CallMouseDragStepSet ==
    /\ CanDrag
    /\ \E f \in DragFuns \cup {NoFun} :
         /\ drag' = MouseDragStepSet(drag, f)
         /\ gesture' = [gesture EXCEPT !.op = "MouseDragStepSet", !.n = @ + 1,
                                       !.stepSet = f]
    /\ UNCHANGED <<bindVars, iconVars>>

CallMouseDragEnd ==
    /\ CanDrag
    /\ gesture' = [gesture EXCEPT !.op = "MouseDragEnd", !.n = @ + 1,
                                  !.retf = MouseDragEnd(drag)]
    /\ UNCHANGED <<drag, bindVars, iconVars>>

CallMouseDragEndSet ==
    /\ CanDrag
    /\ \E f \in DragFuns \cup {NoFun} :
         /\ drag' = MouseDragEndSet(drag, f)
         /\ gesture' = [gesture EXCEPT !.op = "MouseDragEndSet", !.n = @ + 1,
                                       !.endSet = f]
    /\ UNCHANGED <<bindVars, iconVars>>

\* The begin operation the caller composes: the begin function (a
\* MouseDragBeginFun) answers proceed; if it is false the drag does not
\* start, if it is true the caller sets the drag in progress and installs
\* the step and end functions of the gesture.
DragBegunAlways(xu, proceed, step, end) ==
    MouseDragEndSet(MouseDragStepSet(MouseDragSet(xu, TRUE), step), end)

DragBegun(xu, proceed, step, end) ==
    IF proceed
      THEN MouseDragEndSet(MouseDragStepSet(MouseDragSet(xu, TRUE), step), end)
      ELSE xu

DragBegin ==
    /\ CanDrag
    /\ \E proceed \in BOOLEAN, step \in DragFuns, end \in DragFuns :
         /\ drag' = DragBegun(drag, proceed, step, end)
         /\ gesture' = [gesture EXCEPT
               !.op = "begin", !.n = @ + 1,
               !.begin = IF proceed THEN "accepted" ELSE "declined",
               !.idle = ~MouseDrag(drag), !.forced = FALSE,
               !.step = step, !.end = end, !.invoked = <<>>,
               !.lastSet = IF proceed THEN <<TRUE>> ELSE @,
               !.stepSet = IF proceed THEN step ELSE @,
               !.endSet = IF proceed THEN end ELSE @]
    /\ UNCHANGED <<bindVars, iconVars>>

\* A pointer motion: while a drag is in progress the event loop calls the
\* step function, if there is one.
DragStepped(xu) ==
    IF MouseDrag(xu) /\ MouseDragStep(xu) # NoFun THEN <<MouseDragStep(xu)>> ELSE <<>>

DragMotion ==
    /\ CanDrag
    /\ gesture' = [gesture EXCEPT !.op = "motion", !.n = @ + 1,
                                  !.invoked = @ \o DragStepped(drag)]
    /\ UNCHANGED <<drag, bindVars, iconVars>>

\* The button release: while a drag is in progress the event loop calls
\* the end function, if there is one, and then sets the drag not in
\* progress.
DragEnded(xu) ==
    IF MouseDrag(xu) /\ MouseDragEnd(xu) # NoFun THEN <<MouseDragEnd(xu)>> ELSE <<>>

DragRelease ==
    /\ CanDrag
    /\ drag' = IF MouseDrag(drag) THEN MouseDragSet(drag, FALSE) ELSE drag
    /\ gesture' = [gesture EXCEPT !.op = "release", !.n = @ + 1,
                                  !.invoked = @ \o DragEnded(drag),
                                  !.lastSet = IF MouseDrag(drag) THEN <<FALSE>> ELSE @]
    /\ UNCHANGED <<bindVars, iconVars>>

NextDrag ==
    \/ CallMouseDrag
    \/ CallMouseDragSet
    \/ CallMouseDragStep
    \/ CallMouseDragStepSet
    \/ CallMouseDragEnd
    \/ CallMouseDragEndSet
    \/ DragBegin
    \/ DragMotion
    \/ DragRelease

SpecDrag == Init /\ [][NextDrag]_vars

\* ------------------------------------------------------- FindBestIcon
\* A uint32 is kept as <<hi, lo>>, its two 16-bit halves, and a wider
\* number as a longer sequence of 16-bit digits, the most significant
\* first, so that no intermediate value leaves the range of the integers
\* TLC computes with.
Half == 65536
\* The uint32 of value n, for n below 2^31.
Uint32(n) == <<n \div Half, n % Half>>

\* The product of two numbers below Half, exact, as <<hi, lo>>.
Mul16(a, b) ==
    LET a1 == a \div 256  a0 == a % 256
        b1 == b \div 256  b0 == b % 256
        mid == (a1 * b0 + a0 * b1) * 256 + a0 * b0
    IN  <<a1 * b1 + mid \div Half, mid % Half>>

\* The product w * h of two uint32 as an integer, exact: four digits.
Product(w, h) ==
    LET p0 == Mul16(w[2], h[2])
        p1 == Mul16(w[1], h[2])
        p2 == Mul16(w[2], h[1])
        p3 == Mul16(w[1], h[1])
        s1 == p0[1] + p1[2] + p2[2]
        s2 == p1[1] + p2[1] + p3[2] + s1 \div Half
    IN  <<p3[1] + s2 \div Half, s2 % Half, s1 % Half, p0[2]>>

\* width * height of uint32 operands: the product modulo 2^32.
Area(w, h) == <<Product(w, h)[3], Product(w, h)[4]>>

\* a < b, a <= b of two numbers of as many digits
Less(a, b) ==
    \E i \in 1..Len(a) : a[i] < b[i] /\ \A j \in 1..(i - 1) : a[j] = b[j]
Leq(a, b) == a = b \/ Less(a, b)

\* 2 * x, and x - y for y <= x, of numbers <<hi, lo>> whose hi may exceed
\* 16 bits (the numbers of the division below stay under 2^33).
Dbl(x) == <<2 * x[1] + (2 * x[2]) \div Half, (2 * x[2]) % Half>>
Sub(x, y) ==
    IF x[2] >= y[2] THEN <<x[1] - y[1], x[2] - y[2]>>
                    ELSE <<x[1] - y[1] - 1, x[2] + Half - y[2]>>

\* The significand of a float64 has 53 bits.
MantissaBits == 53

\* n / d = 2^e * (n' / d') with d' <= n' < 2 d'
RECURSIVE ScaleDivisor(_, _, _)
ScaleDivisor(n, d, e) ==
    IF Leq(Dbl(d), n) THEN ScaleDivisor(n, Dbl(d), e + 1) ELSE <<n, d, e>>
RECURSIVE ScaleDividend(_, _, _)
ScaleDividend(n, d, e) ==
    IF Less(n, d) THEN ScaleDividend(Dbl(n), d, e - 1) ELSE <<n, d, e>>

\* The first MantissaBits bits of (d + r) / d for r < d, and the remainder.
RECURSIVE Mantissa(_, _, _)
Mantissa(r, d, bits) ==
    IF Len(bits) = MantissaBits THEN <<bits, r>>
    ELSE IF Leq(d, Dbl(r)) THEN Mantissa(Sub(Dbl(r), d), d, Append(bits, 1))
    ELSE Mantissa(Dbl(r), d, Append(bits, 0))

\* float64(w) / float64(h) for uint32 w, h: the conversions are exact and
\* the quotient is rounded to the nearest float64, ties to even; x / 0 is
\* +Inf for x > 0 and NaN for x = 0.  A finite quotient other than 0 is
\* 2^e times the significand m, a sequence of MantissaBits bits.
Float64Div(w, h) ==
    IF h = Uint32(0)
      THEN [kind |-> IF w = Uint32(0) THEN "NaN" ELSE "Inf", e |-> 0, m |-> <<>>]
    ELSE IF w = Uint32(0) THEN [kind |-> "zero", e |-> 0, m |-> <<>>]
    ELSE
      LET s == IF Leq(h, w) THEN ScaleDivisor(w, h, 0) ELSE ScaleDividend(w, h, 0)
          q == Mantissa(Sub(s[1], s[2]), s[2], <<1>>)
          bits == q[1]
          up == \/ Less(s[2], Dbl(q[2]))
                \/ Dbl(q[2]) = s[2] /\ bits[MantissaBits] = 1
          zeros == {i \in 1..MantissaBits : bits[i] = 0}
          k == CHOOSE i \in zeros : \A j \in zeros : j <= i
      IN  IF ~up THEN [kind |-> "num", e |-> s[3], m |-> bits]
          ELSE IF zeros = {}
            THEN [kind |-> "num", e |-> s[3] + 1,
                  m |-> [i \in 1..MantissaBits |-> IF i = 1 THEN 1 ELSE 0]]
          ELSE [kind |-> "num", e |-> s[3],
                m |-> [i \in 1..MantissaBits |->
                         IF i < k THEN bits[i] ELSE IF i = k THEN 1 ELSE 0]]

\* fw1 / fh1 == fw2 / fh2: NaN equals nothing, itself included.
proportional(w1, h1, w2, h2) ==
    LET q1 == Float64Div(w1, h1)
        q2 == Float64Div(w2, h2)
    IN  q1.kind # "NaN" /\ q2.kind # "NaN" /\ q1 = q2

\* (iconArea >= parea && iconArea <= bestArea) ||
\* (bestArea < parea && iconArea > bestArea)
IconIsBetter(parea, bestArea, iconArea) ==
    \/ Leq(parea, iconArea) /\ Leq(iconArea, bestArea)
    \/ Less(bestArea, parea) /\ Less(bestArea, iconArea)

\* for _, icon := range icons { ... }: the loop from the i-th icon on, with
\* b the index of best (0 when best is nil).
RECURSIVE FindBestIconFrom(_, _, _, _, _)
FindBestIconFrom(width, height, icons, i, b) ==
    IF i > Len(icons) THEN b
    ELSE IF ~proportional(width, height, icons[i].Width, icons[i].Height)
      THEN FindBestIconFrom(width, height, icons, i + 1, b)
    ELSE IF b = 0
      THEN FindBestIconFrom(width, height, icons, i + 1, i)
    ELSE IF IconIsBetter(Area(width, height),
                         Area(icons[b].Width, icons[b].Height),
                         Area(icons[i].Width, icons[i].Height))
      THEN FindBestIconFrom(width, height, icons, i + 1, i)
    ELSE FindBestIconFrom(width, height, icons, i + 1, b)

\* The index in icons of the icon returned, 0 for nil.
FindBestIcon(width, height, icons) ==
    IF Len(icons) = 0 THEN 0 ELSE FindBestIconFrom(width, height, icons, 1, 0)

\* The dimensions the callers pass: of the preferred size and of the icons.
\* The last two have different ratios whose float64 quotients are equal.
IconSizes == {<<1, 1>>, <<2, 2>>, <<3, 3>>, <<65536, 65536>>, <<1, 2>>, <<2, 4>>,
              <<134217729, 134217728>>, <<134217730, 134217729>>}
WmIcon(size) == [Width |-> Uint32(size[1]), Height |-> Uint32(size[2])]

InitIcon ==
    /\ \E size \in IconSizes, n \in 0..MaxIcons :
         \E sizes \in [1..n -> IconSizes] :
            find = [width |-> Uint32(size[1]), height |-> Uint32(size[2]),
                    icons |-> [i \in 1..n |-> WmIcon(sizes[i])]]
    /\ best = <<>>
    /\ mousebinds = <<>>
    /\ mousegrabs = <<>>
    /\ mousebindsLck = [w |-> 0, r |-> {}]
    /\ pc = [t \in Threads |-> "idle"]
    /\ arg = [t \in Threads |-> NoArg]
    /\ res = [t \in Threads |-> NoRes]
    /\ run = [t \in Threads |-> NoRun]
    /\ ops = 0
    /\ attached = [k \in Keys |-> <<>>]
    /\ drag = NoDrag
    /\ gesture = NoGesture

CallFindBestIcon ==
    /\ best = <<>>
    /\ best' = <<FindBestIcon(find.width, find.height, find.icons)>>
    /\ UNCHANGED <<find, bindVars, dragVars>>

NextIcon == CallFindBestIcon

SpecIcon == InitIcon /\ [][NextIcon]_vars

\* =================================================================== claims
\* The states another goroutine can look at: the write lock is not held.
\* (A reader holds the read lock only while no writer does.)
Observable == mousebindsLck.w = 0

Holds(t) == mousebindsLck.w = t \/ t \in mousebindsLck.r

\* The keys of one (event type, window).
KeysOf(evtype, win) == {k \in Keys : k.Evtype = evtype /\ k.Win = win}

\* C1: whenever no call holds the write lock, every key present in both
\* xu.mousebinds and xu.mousegrabs has a grab count equal to the length of
\* its chain, whatever calls the goroutines interleave.
GrabCountIsChainLength ==
    Observable =>
        \A k \in DOMAIN mousebinds \cap DOMAIN mousegrabs :
            mousegrabs[k] = Len(mousebinds[k])

\* A chain of two with a count of two, while the other goroutine waits to
\* detach and a detached key still has its count entry.
GrabCountIsChainLengthWitness ==
    /\ Observable
    /\ \E k \in DOMAIN mousebinds \cap DOMAIN mousegrabs :
         Len(mousebinds[k]) = 2 /\ mousegrabs[k] = 2
    /\ \E t \in Threads : pc[t] = "det_lock"

\* C2: after N attaches under a key that returned since the key was last
\* absent, MouseBindCallbacks(key) has length N and MouseBindGrabs of the
\* key is N, whatever was attached under other keys meanwhile.
AttachCountsAgree ==
    Observable =>
        \A k \in Keys :
            /\ Len(MouseBindCallbacks(mousebinds, k)) = Len(attached[k])
            /\ MouseBindGrabs(mousegrabs, k) = Len(attached[k])

\* Two attaches under one key and one under another have returned.
AttachCountsAgreeWitness ==
    /\ Observable
    /\ \E k, k2 \in Keys :
         /\ k # k2
         /\ Len(attached[k]) = 2 /\ Len(attached[k2]) = 1
         /\ Len(MouseBindCallbacks(mousebinds, k)) = 2
         /\ MouseBindGrabs(mousegrabs, k) = 2

\* The step that runs the loop of DetachMouseBindWindow.
DetachStep(t) == pc[t] = "det_loop" /\ pc'[t] = "det_unlock"

\* C3: the loop of DetachMouseBindWindow(evtype, win) removes every key of
\* (evtype, win) from xu.mousebinds and leaves its grab count at 0; every
\* other key keeps its chain and its grab count.
DetachRemovesWindow ==
    [][\A t \in Threads : DetachStep(t) =>
          /\ \A k \in KeysOf(arg[t].evtype, arg[t].win) :
               /\ k \notin DOMAIN mousebinds'
               /\ MouseBindGrabs(mousegrabs', k) = 0
          /\ \A k \in Keys \ KeysOf(arg[t].evtype, arg[t].win) :
               /\ (k \in DOMAIN mousebinds') = (k \in DOMAIN mousebinds)
               /\ BindsAt(mousebinds', k) = BindsAt(mousebinds, k)
               /\ (k \in DOMAIN mousegrabs') = (k \in DOMAIN mousegrabs)
               /\ GrabsAt(mousegrabs', k) = GrabsAt(mousegrabs, k)]_vars

\* The loop has removed a key with a non-zero modifier mask and left a key
\* of another event type registered.
DetachRemovesWindowWitness ==
    \E t \in Threads :
        /\ pc[t] = "det_unlock"
        /\ \E k \in KeysOf(arg[t].evtype, arg[t].win) :
             /\ k.Mod # 0
             /\ attached[k] # <<>>
             /\ k \notin DOMAIN mousebinds
             /\ MouseBindGrabs(mousegrabs, k) = 0
        /\ \E k \in DOMAIN mousebinds : k.Evtype # arg[t].evtype

\* C4: ConnectedMouseBind(evtype, win) is true exactly when an attach under
\* some key of (evtype, win), whatever its modifiers and button, has
\* returned since the last DetachMouseBindWindow(evtype, win).
ConnectedIffAttached ==
    Observable =>
        \A e \in EvTypes, w \in Wins :
            ConnectedMouseBind(mousebinds, e, w)
                <=> \E k \in KeysOf(e, w) : attached[k] # <<>>

\* Connected through a key with modifiers only, and not connected for the
\* other event type of the same window after that was attached and detached.
ConnectedIffAttachedWitness ==
    /\ Observable
    /\ \E k \in DOMAIN mousebinds, k2 \in DOMAIN mousegrabs :
         /\ k.Mod # 0
         /\ ConnectedMouseBind(mousebinds, k.Evtype, k.Win)
         /\ \A k3 \in DOMAIN mousebinds : k3 = k
         /\ k2.Win = k.Win /\ k2.Evtype # k.Evtype
         /\ ~ConnectedMouseBind(mousebinds, k2.Evtype, k2.Win)

\* C5: RunMouseBindCallbacks calls Run of the callbacks attached under the
\* key in the order of the attaches, once for each attach.
RunInAttachOrder ==
    \A t \in Threads :
        run[t].st \in {"loop", "done"} =>
            /\ run[t].i <= Len(run[t].snap)
            /\ run[t].ran = SubSeq(run[t].snap, 1, run[t].i)
            /\ (run[t].st = "done" => run[t].ran = run[t].snap)

\* A run is over that called the same callback twice.
RunInAttachOrderWitness ==
    \E t \in Threads :
        /\ run[t].st = "done"
        /\ Len(run[t].ran) = 2
        /\ run[t].ran[1] = run[t].ran[2]

\* C6: when every goroutine of Attachers has attached once, each under a key
\* of its own, each of these keys has a chain of exactly the callback its
\* goroutine attached and a grab count of 1, and the registry holds besides
\* them what it held before.
AllReturned == \A t \in Attachers : pc[t] = "ret"

DisjointAttachesKept ==
    AllReturned =>
        /\ \A t \in Attachers :
             /\ ArgKey(t) \in DOMAIN mousebinds
             /\ mousebinds[ArgKey(t)] = <<arg[t].fun>>
             /\ MouseBindGrabs(mousegrabs, ArgKey(t)) = 1
        /\ \A k \in Keys \ {ArgKey(t) : t \in Attachers} :
             /\ (k \in DOMAIN mousebinds) = (attached[k] # <<>>)
             /\ BindsAt(mousebinds, k) = attached[k]
             /\ GrabsAt(mousegrabs, k) = Len(attached[k])
        /\ Cardinality(DOMAIN mousebinds) =
             MaxAttachers + Cardinality({k \in Keys \ {ArgKey(t) : t \in Attachers} :
                                            attached[k] # <<>>})

\* All have returned, and the registry holds one key more than they attached.
DisjointAttachesKeptWitness ==
    /\ AllReturned
    /\ Cardinality(DOMAIN mousebinds) = MaxAttachers + 1

\* The steps of goroutine t inside a call (it has been called and has not
\* returned).
StepInCall(t) ==
    \/ ReturnToCaller(t)
    \/ AttachLock(t) \/ AttachAlloc(t) \/ AttachAppend(t) \/ AttachInc(t)
    \/ AttachUnlock(t)
    \/ KeysRLock(t) \/ KeysCopy(t)
    \/ CallbacksRLock(t) \/ CallbacksCopy(t)
    \/ RunInvoke(t) \/ RunExit(t) \/ RunReturn(t)
    \/ ConnectedRLock(t) \/ ConnectedScan(t)
    \/ DetachLock(t) \/ DetachLoop(t) \/ DetachUnlock(t)
    \/ GrabsRLock(t) \/ GrabsReturn(t)

WaitsForLock(t) ==
    pc[t] \in {"att_lock", "det_lock", "keys_rlock", "cbs_rlock", "con_rlock",
               "grb_rlock"}

\* C7: while RunMouseBindCallbacks ranges over the callbacks the goroutine
\* holds the lock in neither mode, and a goroutine that waits for the lock,
\* also inside a callback, either can take it or waits for another
\* goroutine that holds it and can take its next step.
NoReentrantDeadlock ==
    \A t \in Threads :
        /\ (run[t].st = "loop" /\ (pc[t] = "run_loop" \/ WaitsForLock(t)))
              => ~Holds(t)
        /\ WaitsForLock(t) =>
              \/ ENABLED StepInCall(t)
              \/ \E u \in Threads \ {t} : Holds(u) /\ ENABLED StepInCall(u)

\* A callback has called AttachMouseBindCallback and DetachMouseBindWindow
\* from inside Run and both returned: the run is over with both called.
NoReentrantDeadlockWitness ==
    \E t \in Threads :
        /\ run[t].st = "done"
        /\ \E i, j \in DOMAIN run[t].ran :
             run[t].ran[i] = "cbAttach" /\ run[t].ran[j] = "cbDetach"

\* C8: the callbacks one RunMouseBindCallbacks calls are the chain the key
\* had when MouseBindCallbacks copied it, in that order, whatever is
\* attached or detached after the copy.
RunUsesSnapshot ==
    \A t \in Threads :
        run[t].st \in {"loop", "done"} =>
            /\ run[t].i <= Len(run[t].chain)
            /\ run[t].ran = SubSeq(run[t].chain, 1, run[t].i)
            /\ (run[t].st = "done" => run[t].ran = run[t].chain)

\* A run is over, and the chain of its key is no longer the one it called.
RunUsesSnapshotWitness ==
    \E t \in Threads :
        /\ run[t].st = "done"
        /\ run[t].ran # <<>>
        /\ run[t].ran # BindsAt(mousebinds, run[t].key)

\* C9: the loop of DetachMouseBindWindow(evtype, win), run while no key of
\* (evtype, win) is registered, leaves both maps as they are, and the grab
\* counts of the window stay 0.
DetachIdempotent ==
    [][\A t \in Threads :
          (DetachStep(t) /\
           \A k \in KeysOf(arg[t].evtype, arg[t].win) : k \notin DOMAIN mousebinds)
          => /\ mousebinds' = mousebinds
             /\ mousegrabs' = mousegrabs
             /\ \A k \in KeysOf(arg[t].evtype, arg[t].win) :
                  MouseBindGrabs(mousegrabs', k) = 0]_vars

\* The loop has run for a window that an earlier DetachMouseBindWindow had
\* emptied: the count entry of a key of the window is there, at 0.
DetachIdempotentWitness ==
    \E t \in Threads :
        /\ pc[t] = "det_unlock"
        /\ \E k \in KeysOf(arg[t].evtype, arg[t].win) :
             /\ attached[k] = <<>>
             /\ k \in DOMAIN mousegrabs
             /\ mousegrabs[k] = 0
             /\ k \notin DOMAIN mousebinds

\* The steps in which a read operation computes its result.
CallbacksStep(t) == pc[t] = "cbs_copy" /\ pc'[t] # "cbs_copy"
GrabsStep(t) == pc[t] = "grb_read" /\ pc'[t] # "grb_read"
ConnectedStep(t) == pc[t] = "con_scan" /\ pc'[t] # "con_scan"
KeysStep(t) == pc[t] = "keys_copy" /\ pc'[t] # "keys_copy"
RunExitStep(t) == pc[t] = "run_loop" /\ pc'[t] = "run_ret"

\* C10: for a key that is not registered MouseBindCallbacks returns an
\* empty slice, MouseBindGrabs 0, ConnectedMouseBind false and
\* RunMouseBindCallbacks calls no callback; and no read operation changes
\* xu.mousebinds or xu.mousegrabs.
ReadsOfUnknownKey ==
    [][\A t \in Threads :
          /\ (CallbacksStep(t) \/ GrabsStep(t) \/ ConnectedStep(t) \/ KeysStep(t)
                \/ RunExitStep(t))
                => mousebinds' = mousebinds /\ mousegrabs' = mousegrabs
          /\ (CallbacksStep(t) /\ ArgKey(t) \notin DOMAIN mousebinds)
                => IF run[t].st = "snap" THEN run'[t].cbs = <<>>
                   ELSE res'[t].op = "cbs" /\ res'[t].cbs = <<>>
          /\ (GrabsStep(t) /\ ArgKey(t) \notin DOMAIN mousebinds /\ ~Nested(t))
                => res'[t].op = "grb" /\ res'[t].n = 0
          /\ (ConnectedStep(t) /\
              \A k \in KeysOf(arg[t].evtype, arg[t].win) : k \notin DOMAIN mousebinds)
                => res'[t].op = "con" /\ res'[t].b = FALSE
          /\ (RunExitStep(t) /\ run[t].chain = <<>>)
                => run'[t].ran = <<>>]_vars

\* MouseBindGrabs has returned 0 for a key that is not registered but whose
\* count entry exists.
ReadsOfUnknownKeyWitness ==
    \E t \in Threads :
        /\ pc[t] = "ret"
        /\ res[t].op = "grb" /\ res[t].n = 0
        /\ ArgKey(t) \notin DOMAIN mousebinds
        /\ ArgKey(t) \in DOMAIN mousegrabs

\* The elements of a sequence.
Range(s) == {s[i] : i \in DOMAIN s}

\* C11: MouseBindKeys returns every key that is registered while it holds
\* the read lock (every key attached since its last detach) exactly once
\* and no other key; what it returned stays as it is when the registry
\* changes afterwards, and handing it to the caller changes neither map.
KeysIsSnapshot ==
    [][\A t \in Threads :
          /\ KeysStep(t) =>
               /\ Range(res'[t].keys) = {k \in Keys : attached[k] # <<>>}
               /\ Len(res'[t].keys) = Cardinality(Range(res'[t].keys))
          /\ (pc[t] = "ret" /\ res[t].op = "keys") =>
               /\ pc'[t] = "ret" => res'[t] = res[t]
               /\ pc'[t] # "ret" =>
                    mousebinds' = mousebinds /\ mousegrabs' = mousegrabs]_vars

\* MouseBindKeys has returned a key, and the registry now holds another set
\* of keys than the one returned.
KeysIsSnapshotWitness ==
    \E t \in Threads :
        /\ pc[t] = "ret" /\ res[t].op = "keys"
        /\ res[t].keys # <<>>
        /\ Observable
        /\ Range(res[t].keys) # DOMAIN mousebinds

\* The steps of AttachMouseBindCallback that write to a map.
AttachStep(t) == pc[t] \in {"att_alloc", "att_append", "att_inc"} /\ pc'[t] # pc[t]

\* C12: keys are equal only when all four fields are: the statements of
\* AttachMouseBindCallback(key) change the chain and the count of key and of
\* no other key (the append adds fun to the chain of key, the increment adds
\* 1 to its count), and the loop of DetachMouseBindWindow(evtype, win)
\* leaves the keys of every other event type as they are.
KeysAreIndependent ==
    [][\A t \in Threads :
          /\ AttachStep(t) =>
               \A k \in Keys \ {ArgKey(t)} :
                   /\ (k \in DOMAIN mousebinds') = (k \in DOMAIN mousebinds)
                   /\ BindsAt(mousebinds', k) = BindsAt(mousebinds, k)
                   /\ (k \in DOMAIN mousegrabs') = (k \in DOMAIN mousegrabs)
                   /\ GrabsAt(mousegrabs', k) = GrabsAt(mousegrabs, k)
          /\ (pc[t] = "att_append" /\ pc'[t] = "att_inc") =>
               BindsAt(mousebinds', ArgKey(t))
                   = Append(BindsAt(mousebinds, ArgKey(t)), arg[t].fun)
          /\ (pc[t] = "att_inc" /\ pc'[t] = "att_unlock") =>
               GrabsAt(mousegrabs', ArgKey(t)) = GrabsAt(mousegrabs, ArgKey(t)) + 1
          /\ DetachStep(t) =>
               \A k \in Keys :
                   k.Evtype # arg[t].evtype =>
                       /\ (k \in DOMAIN mousebinds') = (k \in DOMAIN mousebinds)
                       /\ BindsAt(mousebinds', k) = BindsAt(mousebinds, k)
                       /\ GrabsAt(mousegrabs', k) = GrabsAt(mousegrabs, k)]_vars

\* An attach under a key has run its statements while the key of the other
\* event type with the same window, modifiers and button is registered.
KeysAreIndependentWitness ==
    \E t \in Threads :
        /\ pc[t] = "att_unlock"
        /\ \E k \in DOMAIN mousebinds :
             /\ k.Evtype # arg[t].evtype
             /\ k.Win = arg[t].win /\ k.Mod = arg[t].mods
             /\ k.Button = arg[t].button
             /\ mousebinds[k] # <<>>
             /\ mousegrabs[k] = Len(mousebinds[k])

\* C18: with an absent key counted as an empty chain and a count of 0, the
\* grab count of every key equals the length of its chain whenever the write
\* lock is not held; no count is ever negative; and the loop of
\* DetachMouseBindWindow keeps the count entry of every key it removes, at 0.
CountIsLengthForAllKeys ==
    /\ [](/\ Observable =>
               \A k \in Keys :
                   GrabsAt(mousegrabs, k) = Len(BindsAt(mousebinds, k))
          /\ \A k \in DOMAIN mousegrabs : mousegrabs[k] >= 0)
    /\ [][\A t \in Threads : DetachStep(t) =>
             /\ DOMAIN mousegrabs \subseteq DOMAIN mousegrabs'
             /\ \A k \in DOMAIN mousebinds \ DOMAIN mousebinds' :
                  k \in DOMAIN mousegrabs' /\ mousegrabs'[k] = 0]_vars

\* A run that called two callbacks is over, and a key that was detached has
\* its count entry, at 0, and no chain.
CountIsLengthForAllKeysWitness ==
    /\ Observable
    /\ \E k \in DOMAIN mousegrabs \ DOMAIN mousebinds :
         mousegrabs[k] = 0 /\ attached[k] = <<>>
    /\ \E t \in Threads : run[t].st = "done" /\ Len(run[t].ran) = 2

\* C19: whenever the write lock is not held every registered key has a chain
\* of at least one callback, so ConnectedMouseBind(evtype, win) is true only
\* if RunMouseBindCallbacks would call a callback for some key of
\* (evtype, win).
NoEmptyChain ==
    Observable =>
        /\ \A k \in DOMAIN mousebinds : Len(mousebinds[k]) >= 1
        /\ \A e \in EvTypes, w \in Wins :
             ConnectedMouseBind(mousebinds, e, w) =>
                 \E k \in KeysOf(e, w) : MouseBindCallbacks(mousebinds, k) # <<>>

\* A goroutine is between the allocation of a chain and its first append,
\* inside the critical section, while another key is registered with a
\* chain of callbacks.
NoEmptyChainWitness ==
    \E t \in Threads, k \in DOMAIN mousebinds :
        /\ pc[t] = "att_append"
        /\ mousebinds[ArgKey(t)] = <<>>
        /\ k # ArgKey(t)
        /\ mousebinds[k] # <<>>

\* C20: when the goroutines of Attachers attach concurrently to one shared
\* key, with no detach, then whenever the write lock is not held the chain of
\* the key is the callbacks of the attaches that returned, in the order in
\* which they returned, and its grab count is their number; when all have
\* returned the chain has MaxAttachers entries, each callback as often as it
\* was attached, and the count is MaxAttachers; and the chain a concurrent
\* MouseBindCallbacks returned is a prefix of that order of the attaches.
IsPrefix(s, q) == Len(s) <= Len(q) /\ \A i \in 1..Len(s) : s[i] = q[i]
Occurrences(s, f) == Cardinality({i \in DOMAIN s : s[i] = f})

SharedAttachesAtomic ==
    \A k \in Keys :
        (\A t \in Attachers : ArgKey(t) = k) =>
            /\ Observable =>
                 /\ BindsAt(mousebinds, k) = attached[k]
                 /\ GrabsAt(mousegrabs, k) = Len(attached[k])
                 /\ Len(attached[k]) =
                      Cardinality({t \in Attachers : pc[t] = "ret"})
            /\ AllReturned =>
                 /\ Len(mousebinds[k]) = MaxAttachers
                 /\ mousegrabs[k] = MaxAttachers
                 /\ \A f \in Callbacks :
                      Occurrences(mousebinds[k], f) =
                        Cardinality({t \in Attachers : arg[t].fun = f})
            /\ \A r \in Readers :
                 pc[r] = "ret" => IsPrefix(res[r].cbs, attached[k])

\* All attaches on the shared key have returned, with callbacks that are not
\* all the same, and the reader got a chain that is neither empty nor whole.
SharedAttachesAtomicWitness ==
    /\ AllReturned
    /\ \E t, u \in Attachers : ArgKey(t) = ArgKey(u) /\ arg[t].fun # arg[u].fun
    /\ \E r \in Readers :
         /\ pc[r] = "ret"
         /\ Len(res[r].cbs) \in 1..(MaxAttachers - 1)

\* C13: no drag is in progress before the first call of MouseDragSet, and
\* afterwards the one flag xu.mouseDrag, which MouseDrag returns, is the
\* argument of the most recent call of MouseDragSet (those the begin and
\* the release make included): false after MouseDragSet(false), whatever
\* it was before.
LastSetDragging == IF gesture.lastSet = <<>> THEN FALSE ELSE gesture.lastSet[1]

FlagIsLastSet ==
    /\ MouseDrag(drag) = LastSetDragging
    /\ drag.mouseDrag \in BOOLEAN
    /\ gesture.op = "MouseDrag" => gesture.retb = LastSetDragging

\* MouseDrag has just returned false, after a drag that was begun and was
\* then switched off by MouseDragSet(false).
FlagIsLastSetWitness ==
    /\ gesture.op = "MouseDrag"
    /\ gesture.retb = FALSE
    /\ gesture.lastSet = <<FALSE>>
    /\ gesture.begin = "accepted"
    /\ gesture.invoked = <<>>
    /\ drag.mouseDragStep # NoFun

\* The kinds of step of the event loop.
DragOp(name) == gesture'.n # gesture.n /\ gesture'.op = name

\* C15: MouseDragSet changes xu.mouseDrag only, MouseDragStepSet changes
\* xu.mouseDragStep only and MouseDragEndSet changes xu.mouseDragEnd only,
\* so the step and end functions are at all times the ones last installed,
\* also after the drag they were installed for has ended, and a drag that
\* is switched on again by MouseDragSet(true) calls them.
SlotsAreIndependent ==
    /\ [](/\ MouseDragStep(drag) = gesture.stepSet
          /\ MouseDragEnd(drag) = gesture.endSet
          /\ gesture.op = "MouseDragStep" => gesture.retf = gesture.stepSet
          /\ gesture.op = "MouseDragEnd" => gesture.retf = gesture.endSet)
    /\ [][/\ DragOp("MouseDragSet") =>
               /\ drag'.mouseDragStep = drag.mouseDragStep
               /\ drag'.mouseDragEnd = drag.mouseDragEnd
               /\ drag'.mouseDrag = gesture'.lastSet[1]
          /\ DragOp("MouseDragStepSet") =>
               /\ drag'.mouseDrag = drag.mouseDrag
               /\ drag'.mouseDragEnd = drag.mouseDragEnd
               /\ drag'.mouseDragStep = gesture'.stepSet
          /\ DragOp("MouseDragEndSet") =>
               /\ drag'.mouseDrag = drag.mouseDrag
               /\ drag'.mouseDragStep = drag.mouseDragStep
               /\ drag'.mouseDragEnd = gesture'.endSet
          /\ DragOp("release") =>
               /\ drag'.mouseDragStep = drag.mouseDragStep
               /\ drag'.mouseDragEnd = drag.mouseDragEnd
          /\ (DragOp("motion") /\ MouseDrag(drag) /\ gesture.stepSet # NoFun) =>
               gesture'.invoked = Append(gesture.invoked, gesture.stepSet)]_vars

\* A drag was begun, switched off and switched on again by MouseDragSet,
\* and a motion has then called the step function of the drag begun.
SlotsAreIndependentWitness ==
    /\ gesture.op = "motion"
    /\ gesture.begin = "accepted"
    /\ gesture.forced
    /\ gesture.n = 4
    /\ MouseDrag(drag)
    /\ gesture.invoked = <<gesture.step>>
    /\ MouseDragEnd(drag) = gesture.end

\* C17: a begin whose begin function answers false leaves the drag state
\* as it is, so that when no drag was in progress none is in progress
\* afterwards and no function is called for the gesture, until the caller
\* itself calls MouseDragSet(true); a begin whose begin function answers
\* true sets the drag in progress and installs the step and end functions
\* of the gesture.
DeclinedBeginStartsNothing ==
    /\ []((gesture.begin = "declined" /\ gesture.idle /\ ~gesture.forced) =>
            /\ ~MouseDrag(drag)
            /\ gesture.invoked = <<>>)
    /\ [][DragOp("begin") =>
            IF gesture'.begin = "declined"
              THEN drag' = drag
              ELSE /\ MouseDrag(drag')
                   /\ MouseDragStep(drag') = gesture'.step
                   /\ MouseDragEnd(drag') = gesture'.end]_vars

\* After a begin that was declined while no drag was in progress, with
\* functions installed from an earlier drag, a motion and a release have
\* come and no function was called.
DeclinedBeginStartsNothingWitness ==
    /\ gesture.begin = "declined"
    /\ gesture.idle
    /\ ~gesture.forced
    /\ gesture.op = "release"
    /\ gesture.n = 4
    /\ MouseDragStep(drag) # NoFun
    /\ MouseDragStep(drag) # gesture.step

\* C14: FindBestIcon returns nil when no icon has the ratio of the
\* preferred dimensions; otherwise, when no icon of that ratio has an area
\* of at least the preferred area, one of that ratio with the largest
\* area; otherwise one of that ratio with the smallest area among those of
\* at least the preferred area; and the area of the icon returned is the
\* same for every order of the icons.
SameRatio(w, h, icon) == Product(w, icon.Height) = Product(icon.Width, h)
IconArea(icon) == Product(icon.Width, icon.Height)
Reordered(icons, q) == [i \in 1..Len(icons) |-> icons[q[i]]]
Orders(n) == {q \in [1..n -> 1..n] : \A i, j \in 1..n : q[i] = q[j] => i = j}

BestIconOf(width, height, icons, b) ==
    LET usable == {i \in 1..Len(icons) : SameRatio(width, height, icons[i])}
        enough == {i \in usable : Leq(Product(width, height), IconArea(icons[i]))}
    IN  IF usable = {} THEN b = 0
        ELSE IF enough = {}
          THEN /\ b \in usable
               /\ \A i \in usable : Leq(IconArea(icons[i]), IconArea(icons[b]))
        ELSE /\ b \in enough
             /\ \A i \in enough : Leq(IconArea(icons[b]), IconArea(icons[i]))

FindsBestIcon ==
    best # <<>> =>
        /\ BestIconOf(find.width, find.height, find.icons, best[1])
        /\ \A q \in Orders(Len(find.icons)) :
             LET icons == Reordered(find.icons, q)
                 b == FindBestIcon(find.width, find.height, icons)
             IN  /\ (b = 0) = (best[1] = 0)
                 /\ b # 0 => IconArea(icons[b]) = IconArea(find.icons[best[1]])

\* The same, for the calls in which no area reaches 2^32.
NoWrap ==
    /\ Less(Product(find.width, find.height), <<0, 1, 0, 0>>)
    /\ \A i \in 1..Len(find.icons) : Less(IconArea(find.icons[i]), <<0, 1, 0, 0>>)

FindsBestIconNoWrap == NoWrap => FindsBestIcon

\* A callback that never returns: one key of the registry has a chain that
\* ends in cbHang, and goroutine 2 has called RunMouseBindCallbacks with
\* that key while goroutine 1 is about to make its calls.  A goroutine that
\* can take a step is scheduled in the end (weak fairness), which is what
\* the Go scheduler gives a runnable goroutine.
HangKey == MouseBindKey(4, 1, 0, 1)

InitHang ==
    /\ \E chain \in {<<"cbHang">>, <<"cbRead", "cbHang">>} :
         /\ mousebinds = [k \in {HangKey} |-> chain]
         /\ mousegrabs = [k \in {HangKey} |-> Len(chain)]
         /\ attached = [k \in Keys |-> IF k = HangKey THEN chain ELSE <<>>]
    /\ mousebindsLck = [w |-> 0, r |-> {}]
    /\ pc = [t \in Threads |-> IF t = 2 THEN "cbs_rlock" ELSE "idle"]
    /\ arg = [t \in Threads |-> IF t = 2 THEN KeyArg(HangKey, NoFun) ELSE NoArg]
    /\ res = [t \in Threads |-> NoRes]
    /\ run = [t \in Threads |->
                 IF t = 2 THEN [NoRun EXCEPT !.st = "snap", !.key = HangKey]
                          ELSE NoRun]
    /\ ops = 1
    /\ drag = NoDrag
    /\ gesture = NoGesture
    /\ find = NoFind
    /\ best = <<>>

SpecHang == InitHang /\ [][Next]_vars /\ \A t \in Threads : WF_vars(StepInCall(t))

\* The labels of a call of one of the methods, from its call to its return.
InMethod(t) ==
    pc[t] \in {"att_lock", "att_alloc", "att_append", "att_inc", "att_unlock",
               "det_lock", "det_loop", "det_unlock", "keys_rlock", "keys_copy",
               "cbs_rlock", "cbs_copy", "con_rlock", "con_scan", "grb_rlock",
               "grb_read"}

\* C16: a goroutine whose callback never returns holds the lock in neither
\* mode, and every call of AttachMouseBindCallback, DetachMouseBindWindow,
\* MouseBindKeys, MouseBindCallbacks, ConnectedMouseBind or MouseBindGrabs
\* that another goroutine is in while the callback hangs returns in the end.
HangBlocksOnlyItsThread ==
    /\ [](\A u \in Threads : pc[u] = "hang" => ~Holds(u))
    /\ \A t \in Threads : \A u \in Threads \ {t} :
         (pc[u] = "hang" /\ run[t].st = "none" /\ InMethod(t)) ~> (pc[t] = "ret")

\* While the callback of goroutine 2 hangs, goroutine 1 has attached to the
\* key of the hanging chain, and returned.
HangBlocksOnlyItsThreadWitness ==
    /\ pc[2] = "hang"
    /\ pc[1] = "ret"
    /\ arg[1].fun # NoFun
    /\ ArgKey(1) = HangKey
    /\ Len(mousebinds[HangKey]) > Len(run[2].cbs)
    /\ ops = MaxOps

====
